---- MODULE Spec2Model ----
(***************************************************************************)
(* Orchestration engine of mini-agent: the LangGraph state machine         *)
(* initialize -> guard -> {finalize | router} -> {rag | tool} -> router    *)
(* ... -> finalize, the ReAct tool loop of tool_node and the guard policy  *)
(* (refusal patterns, PII masking, grounding check).                       *)
(*                                                                         *)
(* Texts are sequences of tokens (words).  A regular expression of the     *)
(* source is modelled by the set of vocabulary tokens in which re.search   *)
(* finds a match.  The completion service, the vector index and the tools  *)
(* are the environment: every answer they can give is drawn from a small   *)
(* set with \E.                                                            *)
(***************************************************************************)
EXTENDS Integers, Sequences, FiniteSets, TLC

(***************************************************************************)
(* Configuration (src/config.py).  The values are read from the process    *)
(* environment (os.getenv); the model runs the process with               *)
(* MAX_NODE_ITERATIONS=1, MAX_TOOL_HOPS=2 and TOP_K=2.                     *)
(***************************************************************************)
MAX_NODE_ITERATIONS == 1

MAX_TOOL_HOPS == 2

TOP_K == 2

(***************************************************************************)
(* Bounds of the model (not of the program).                               *)
(***************************************************************************)
\* the completion service stops proposing tools, and the router stops
\* choosing rag, once tool_calls holds this many records
MaxLog == 3

\* largest number of tool invocations the completion service proposes in
\* one round
MaxBatch == 2

\* longest text (in tokens) handed to a policy function called directly
MaxText == 2

\* threads calling load_index_and_chunks, and calls each of them makes
MaxCallers == 2

MaxCalls == 2

(***************************************************************************)
(* Text helpers                                                            *)
(***************************************************************************)
\* str.lower() on a token
Lower(tok) ==
    CASE tok = "Sue" -> "sue"
      [] tok = "Tool" -> "tool"
      [] tok = "RAG" -> "rag"
      [] tok = "When" -> "when"
      [] OTHER -> tok

\* str.lower() on a text
lower(text) == [i \in DOMAIN text |-> Lower(text[i])]

IsSpace(tok) == tok \in {" ", "\n"}

RECURSIVE lstrip(_)
lstrip(text) ==
    IF text # <<>> /\ IsSpace(Head(text)) THEN lstrip(Tail(text)) ELSE text

RECURSIVE rstrip(_)
rstrip(text) ==
    IF text # <<>> /\ IsSpace(text[Len(text)])
    THEN rstrip(SubSeq(text, 1, Len(text) - 1))
    ELSE text

\* str.strip()
strip(text) == rstrip(lstrip(text))

\* Python truthiness of a str (None and "" are both falsy)
Truthy(text) == text # <<>>

\* Optional[...]: None, or a value
None == <<>>

Some(x) == <<x>>

\* Python truthiness of an Optional[str]
TruthyOptional(o) == o # None /\ Truthy(o[1])

\* the tokens of a text, as a set
Tokens(text) == {text[i] : i \in DOMAIN text}

IsPrefix(s, t) == Len(s) <= Len(t) /\ SubSeq(t, 1, Len(s)) = s

(***************************************************************************)
(* Guard policy (src/guards/policy.py)                                     *)
(***************************************************************************)
\* REFUSE_PATTERNS, in source order.  Each regular expression is given by
\* the lower-case vocabulary tokens in which it finds a match ("issue"
\* contains "sue": re.search matches substrings).
REFUSE_PATTERNS ==
    << [category |-> "legal", matches |-> {"sue", "issue", "lawsuit", "lawyer"}],
       [category |-> "medical", matches |-> {"medicine", "doctor"}],
       [category |-> "financial", matches |-> {"investment", "trading"}],
       [category |-> "document_generation", matches |-> {"draft a document"}] >>

\* re.search(pattern, text)
re_search(pattern, text) == Tokens(text) \cap pattern.matches # {}

RECURSIVE first_refuse_match(_, _)
first_refuse_match(query_lower, i) ==
    IF i > Len(REFUSE_PATTERNS) THEN [refuse |-> FALSE, category |-> "None"]
    ELSE IF re_search(REFUSE_PATTERNS[i], query_lower)
         THEN [refuse |-> TRUE, category |-> REFUSE_PATTERNS[i].category]
         ELSE first_refuse_match(query_lower, i + 1)

\* the same search, the last matching pattern winning
check_refuse_patterns_last_wins(query) ==
    LET hits == {i \in DOMAIN REFUSE_PATTERNS :
                   re_search(REFUSE_PATTERNS[i], lower(query))}
    IN  IF hits = {} THEN [refuse |-> FALSE, category |-> "None"]
        ELSE [refuse |-> TRUE,
              category |-> REFUSE_PATTERNS[CHOOSE i \in hits :
                                             \A j \in hits : j <= i].category]

check_refuse_patterns(query) == first_refuse_match(lower(query), 1)

\* PII_PATTERNS, in source order.  matches: the vocabulary tokens the
\* expression matches as a whole.  inside: the tokens in which it matches a
\* proper part, each with the token re.sub leaves (the local part of
\* "123-45-6789@example.com" has the shape of an SSN).
PII_PATTERNS ==
    << [pii_type |-> "email",
        matches |-> {"john.doe@example.com", "123-45-6789@example.com"},
        inside |-> {}],
       [pii_type |-> "ssn",
        matches |-> {"123-45-6789"},
        inside |-> {<<"123-45-6789@example.com", "[REDACTED_SSN]@example.com">>}],
       [pii_type |-> "phone", matches |-> {"123.456.7890"}, inside |-> {}],
       [pii_type |-> "credit_card", matches |-> {"4111111111111111"}, inside |-> {}] >>

\* one placeholder for every category
Placeholder_untagged(pii_type) == "[REDACTED]"

\* f"[REDACTED_{pii_type.upper()}]"
Placeholder(pii_type) ==
    CASE pii_type = "email" -> "[REDACTED_EMAIL]"
      [] pii_type = "ssn" -> "[REDACTED_SSN]"
      [] pii_type = "phone" -> "[REDACTED_PHONE]"
      [] pii_type = "credit_card" -> "[REDACTED_CREDIT_CARD]"

\* re.sub(pattern, repl, text)
re_sub(pattern, repl, text) ==
    [i \in DOMAIN text |->
        IF text[i] \in pattern.matches THEN repl
        ELSE IF \E p \in pattern.inside : p[1] = text[i]
             THEN (CHOOSE p \in pattern.inside : p[1] = text[i])[2]
             ELSE text[i]]

RECURSIVE mask_from(_, _)
mask_from(masked, i) ==
    IF i > Len(PII_PATTERNS) THEN masked
    ELSE mask_from(re_sub(PII_PATTERNS[i], Placeholder(PII_PATTERNS[i].pii_type), masked),
                   i + 1)

\* the same loop, leaving out the last pattern
mask_pii_skip_last(text) ==
    re_sub(PII_PATTERNS[3], Placeholder("phone"),
      re_sub(PII_PATTERNS[2], Placeholder("ssn"),
        re_sub(PII_PATTERNS[1], Placeholder("email"), text)))

\* the same loop, left after the first pattern that matched
mask_pii_first_only(text) ==
    LET hits == {i \in DOMAIN PII_PATTERNS :
                   re_sub(PII_PATTERNS[i], Placeholder(PII_PATTERNS[i].pii_type), text)
                     # text}
    IN  IF hits = {} THEN text
        ELSE LET i == CHOOSE i \in hits : \A j \in hits : i <= j IN
             re_sub(PII_PATTERNS[i], Placeholder(PII_PATTERNS[i].pii_type), text)

mask_pii(text) == mask_from(text, 1)

\* factual_patterns of check_grounding_required
factual_patterns ==
    << [matches |-> {"what is", "when", "who"}],
       [matches |-> {"policy", "allowance", "generate"}] >>

GroundingError == <<"Query requires grounding but no documents retrieved">>

\* the same check, whatever was retrieved
check_grounding_required_any_chunks(query, retrieved_chunks) ==
    IF \E i \in DOMAIN factual_patterns : re_search(factual_patterns[i], lower(query))
    THEN [is_grounded |-> FALSE, error |-> Some(GroundingError)]
    ELSE [is_grounded |-> TRUE, error |-> None]

check_grounding_required(query, retrieved_chunks) ==
    IF retrieved_chunks = <<>>
       /\ \E i \in DOMAIN factual_patterns : re_search(factual_patterns[i], lower(query))
    THEN [is_grounded |-> FALSE, error |-> Some(GroundingError)]
    ELSE [is_grounded |-> TRUE, error |-> None]

\* the default template, whatever the reason
create_refusal_response_default(reason) == <<"I", "cannot", "assist">>

create_refusal_response(reason) ==
    CASE reason = "legal" ->
           <<"I", "cannot", "provide", "legal", "advice", "consult", "attorney">>
      [] reason = "medical" ->
           <<"I", "cannot", "provide", "medical", "advice", "consult", "healthcare">>
      [] reason = "financial" ->
           <<"I", "cannot", "provide", "financial", "advice", "consult", "advisor">>
      [] reason = "document_generation" ->
           <<"I", "cannot", "generate", "legal", "documents">>
      [] OTHER -> <<"I", "cannot", "assist">>

\* Path(file_path): the components of each path of the model's vocabulary
path_parts(file_path) ==
    CASE file_path = "/proj/data/sandbox/test.txt" ->
           <<"/", "proj", "data", "sandbox", "test.txt">>
      [] file_path = "data/sandbox/test.txt" -> <<"data", "sandbox", "test.txt">>
      [] file_path = "/etc/passwd" -> <<"/", "etc", "passwd">>
      [] file_path = "data/sandbox/../../secret" ->
           <<"data", "sandbox", "..", "..", "secret">>
      [] file_path = "data/sandbox/link/passwd" ->
           <<"data", "sandbox", "link", "passwd">>
      [] file_path = "data/sandbox/sub/../test.txt" ->
           <<"data", "sandbox", "sub", "..", "test.txt">>
      [] file_path = "data/sandbox/a\\0b" -> <<"data", "sandbox", "a\\0b">>

\* the process's working directory (PROJECT_ROOT) and the symbolic links of
\* the file system
Cwd == <<"/", "proj">>

Symlinks == {<<<<"/", "proj", "data", "sandbox", "link">>, <<"/", "etc">>>>}

\* SANDBOX_DIR.resolve()
sandbox_path == <<"/", "proj", "data", "sandbox">>

\* a component added without giving ".." its meaning
resolve_step_keeps_dotdot(base, part) ==
    IF part = "." THEN base
    ELSE LET joined == Append(base, part) IN
         IF \E l \in Symlinks : l[1] = joined
         THEN (CHOOSE l \in Symlinks : l[1] = joined)[2]
         ELSE joined

\* one component added to a canonical path
resolve_step(base, part) ==
    IF part = "." THEN base
    ELSE IF part = ".." THEN (IF Len(base) > 1 THEN SubSeq(base, 1, Len(base) - 1) ELSE base)
    ELSE LET joined == Append(base, part) IN
         IF \E l \in Symlinks : l[1] = joined
         THEN (CHOOSE l \in Symlinks : l[1] = joined)[2]
         ELSE joined

RECURSIVE resolve_from(_, _)
resolve_from(base, parts) ==
    IF parts = <<>> THEN base
    ELSE resolve_from(resolve_step(base, Head(parts)), Tail(parts))

\* Path.resolve()
resolve(parts) ==
    IF parts # <<>> /\ Head(parts) = "/"
    THEN resolve_from(<<"/">>, Tail(parts))
    ELSE resolve_from(Cwd, parts)

\* resolve() raises ValueError on a path with an embedded null byte
resolve_raises(parts) == "a\\0b" \in Tokens(parts)

\* requested_path.relative_to(sandbox_path) does not raise
relative_to(requested_path, base) ==
    /\ Len(base) <= Len(requested_path)
    /\ SubSeq(requested_path, 1, Len(base)) = base

validate_file_path(file_path) ==
    LET parts == path_parts(file_path) IN
    IF resolve_raises(parts)
    THEN [is_valid |-> FALSE,
          error |-> Some(<<"Invalid path:", "embedded null byte">>)]
    ELSE IF relative_to(resolve(parts), sandbox_path)
         THEN [is_valid |-> TRUE, error |-> None]
         ELSE [is_valid |-> FALSE,
               error |-> Some(<<"Path", file_path, "is outside sandbox directory">>)]

\* for file_path in file_paths: the outcome of the first path that is not
\* valid, or a valid outcome
RECURSIVE validate_each(_)
validate_each(file_paths) ==
    IF file_paths = <<>> THEN [is_valid |-> TRUE, error |-> None]
    ELSE IF ~validate_file_path(Head(file_paths)).is_valid
         THEN validate_file_path(Head(file_paths))
         ELSE validate_each(Tail(file_paths))

\* apply_guards validating the paths before the grounding check
apply_guards_paths_first(query, retrieved_chunks, file_paths) ==
    LET r == check_refuse_patterns(query)
        masked_query == mask_pii(query)
        g == IF retrieved_chunks # None
             THEN check_grounding_required(query, retrieved_chunks[1])
             ELSE [is_grounded |-> TRUE, error |-> None]
        v == IF file_paths # None /\ file_paths[1] # <<>>
             THEN validate_each(file_paths[1])
             ELSE [is_valid |-> TRUE, error |-> None]
    IN  IF r.refuse
        THEN [passed |-> FALSE,
              refusal_msg |-> Some(create_refusal_response(r.category)),
              masked_query |-> None]
        ELSE IF ~v.is_valid
        THEN [passed |-> FALSE, refusal_msg |-> v.error,
              masked_query |-> Some(masked_query)]
        ELSE IF ~g.is_grounded
        THEN [passed |-> FALSE, refusal_msg |-> g.error,
              masked_query |-> Some(masked_query)]
        ELSE [passed |-> TRUE, refusal_msg |-> None,
              masked_query |-> Some(masked_query)]

\* apply_guards returning the masked query only when every stage passed
apply_guards_mask_on_pass(query, retrieved_chunks, file_paths) ==
    LET r == check_refuse_patterns(query)
        g == IF retrieved_chunks # None
             THEN check_grounding_required(query, retrieved_chunks[1])
             ELSE [is_grounded |-> TRUE, error |-> None]
        v == IF file_paths # None /\ file_paths[1] # <<>>
             THEN validate_each(file_paths[1])
             ELSE [is_valid |-> TRUE, error |-> None]
    IN  IF r.refuse
        THEN [passed |-> FALSE,
              refusal_msg |-> Some(create_refusal_response(r.category)),
              masked_query |-> None]
        ELSE IF ~g.is_grounded
        THEN [passed |-> FALSE, refusal_msg |-> g.error, masked_query |-> None]
        ELSE IF ~v.is_valid
        THEN [passed |-> FALSE, refusal_msg |-> v.error, masked_query |-> None]
        ELSE [passed |-> TRUE, refusal_msg |-> None,
              masked_query |-> Some(mask_pii(query))]

\* apply_guards(query, retrieved_chunks, file_paths); the two last
\* arguments are Optional
apply_guards(query, retrieved_chunks, file_paths) ==
    LET r == check_refuse_patterns(query)
        masked_query == mask_pii(query)
        g == IF retrieved_chunks # None
             THEN check_grounding_required(query, retrieved_chunks[1])
             ELSE [is_grounded |-> TRUE, error |-> None]
        v == IF file_paths # None /\ file_paths[1] # <<>>
             THEN validate_each(file_paths[1])
             ELSE [is_valid |-> TRUE, error |-> None]
    IN  IF r.refuse
        THEN [passed |-> FALSE,
              refusal_msg |-> Some(create_refusal_response(r.category)),
              masked_query |-> None]
        ELSE IF ~g.is_grounded
        THEN [passed |-> FALSE, refusal_msg |-> g.error,
              masked_query |-> Some(masked_query)]
        ELSE IF ~v.is_valid
        THEN [passed |-> FALSE, refusal_msg |-> v.error,
              masked_query |-> Some(masked_query)]
        ELSE [passed |-> TRUE, refusal_msg |-> None,
              masked_query |-> Some(masked_query)]

(***************************************************************************)
(* The environment: queries, corpus, completion-service answers, tools     *)
(***************************************************************************)
Queries ==
    { <<"relocation", "allowance">>,
      <<"Sue", "employer">>,
      <<"mail", "john.doe@example.com">>,
      <<"lawsuit", "123-45-6789">>,
      <<"doctor", "Sue">>,
      <<"medicine">>,
      <<"investment">>,
      <<"draft a document">> }

\* the chunk table load_chunks() returns
ChunkTable ==
    << [content |-> "relocation allowance is $5,000", source |-> "relocation.md"],
       [content |-> "overtime rate is 1.5x", source |-> "overtime.md"] >>

\* the chunk indices index.search can return for one query: at most k of
\* them, -1 where the index has no further neighbour
SearchResults ==
    {<<>>} \cup UNION {[1..n -> {-1} \cup (0..(Len(ChunkTable) - 1))] : n \in 1..TOP_K}

\* chunks[int(i)]: Python list indexing, a negative index counts from the end
PyIndex(list, i) == IF i < 0 THEN list[Len(list) + i + 1] ELSE list[i + 1]

\* retrieve(query, index, chunks, k), given the indices the search returned
retrieve(chunks, indices) == [j \in DOMAIN indices |-> PyIndex(chunks, indices[j])]

\* message contents the completion service can return for an answer request
AnswerContents ==
    { <<>>, <<" ">>, <<"done", "\n">>, <<"john.doe@example.com", "4111111111111111">> }

\* message contents the completion service can return to the router prompt
RouterContents ==
    { <<"rag">>, <<"tool">>, <<"finalize">>, <<" ", "Tool", "\n">>, <<"RAG">>,
      <<"retrieval">>, <<"maybe">>, <<"rag", "or", "tool">> }

\* the Tool Registry: names of the tools dict
ToolNames == {"safe_calculate", "list_events", "create_event", "clear_events",
              "rag_search", "send_slack_message"}

\* json.loads on the argument strings the completion service can send;
\* "undecodable" where it raises JSONDecodeError
json_loads(arguments) ==
    CASE arguments = "{\"expr\": \"2 + 2\"}" -> <<"expr=2 + 2">>
      [] arguments = "{\"expr\": \"1 / 0\"}" -> <<"expr=1 / 0">>
      [] arguments = "{\"title\": \"sync\", \"start_time\": \"2025-11-05T10:00\"}" ->
           <<"title=sync", "start_time=2025-11-05T10:00">>
      [] arguments = "{}" -> <<>>
      [] OTHER -> <<"undecodable">>

JsonDecodes(arguments) == json_loads(arguments) # <<"undecodable">>

\* tool invocations the completion service can propose
Proposals ==
    { [name |-> "safe_calculate", arguments |-> "{\"expr\": \"2 + 2\"}"],
      [name |-> "safe_calculate", arguments |-> "{\"expr\": \"1 / 0\"}"],
      [name |-> "create_event",
       arguments |-> "{\"title\": \"sync\", \"start_time\": \"2025-11-05T10:00\"}"],
      [name |-> "list_events", arguments |-> "{}"],
      [name |-> "no_such_tool", arguments |-> "{\"expr\": \"2 + 2\"}"],
      [name |-> "safe_calculate", arguments |-> "{\"expr\": " ] }

\* s written n times
RECURSIVE repeat(_, _)
repeat(s, n) == IF n = 0 THEN "" ELSE s \o repeat(s, n - 1)

\* one event of the calendar file as the f-string of the observation prints it
EventText ==
    "{'title': 'sync', 'start': '2025-11-05T10:00', 'end': '2025-11-05T11:00', 'duration': 60}"

\* list_events() on a calendar file holding eight events
EventListing == "[" \o repeat(EventText \o ", ", 7) \o EventText \o "]"

\* what tool_fn(**tool_args) can do: return a value or raise with a message
ToolOutcomes(tool_name, tool_args) ==
    CASE tool_name = "safe_calculate" /\ tool_args = <<"expr=2 + 2">> ->
           {[raised |-> FALSE, text |-> <<"4">>]}
      [] tool_name = "safe_calculate" /\ tool_args = <<"expr=1 / 0">> ->
           {[raised |-> TRUE, text |-> <<"Invalid expression: division by zero">>]}
      [] tool_name = "list_events" /\ tool_args = <<>> ->
           {[raised |-> FALSE, text |-> <<"[]">>],
            [raised |-> FALSE, text |-> <<EventListing>>]}
      [] tool_name = "create_event" ->
           {[raised |-> FALSE, text |-> <<"event">>],
            [raised |-> TRUE, text |-> <<"Permission denied">>]}
      [] OTHER -> {[raised |-> TRUE, text |-> <<"unexpected keyword argument">>]}

(***************************************************************************)
(* Calculator (src/tools/calculator.py).  A value is a Python number: an   *)
(* int or a finite float with an integral value (num), an infinite float   *)
(* (inf, with its sign) or the float nan.                                  *)
(***************************************************************************)
Num(n) == [k |-> "num", n |-> n]
Inf(sign) == [k |-> "inf", n |-> sign]
NaN == [k |-> "nan", n |-> 0]

\* the sanity bound of safe_calculate, 1e9
SanityBound == 1000000000

Sign(n) == IF n > 0 THEN 1 ELSE IF n < 0 THEN -1 ELSE 0

\* what _eval gives: a value, or the exception it raises
Value(v) == [exc |-> "", msg |-> "", v |-> v]
Raise(exc, msg) == [exc |-> exc, msg |-> msg, v |-> NaN]

\* operator.add on Python numbers (IEEE 754 for the floats)
op_add(a, b) ==
    CASE a.k = "nan" \/ b.k = "nan" -> Value(NaN)
      [] a.k = "inf" /\ b.k = "inf" -> IF a.n = b.n THEN Value(a) ELSE Value(NaN)
      [] a.k = "inf" -> Value(a)
      [] b.k = "inf" -> Value(b)
      [] OTHER -> Value(Num(a.n + b.n))

\* operator.neg
op_neg(a) ==
    CASE a.k = "nan" -> Value(NaN)
      [] a.k = "inf" -> Value(Inf(0 - a.n))
      [] OTHER -> Value(Num(0 - a.n))

\* operator.sub
op_sub(a, b) == op_add(a, op_neg(b).v)

\* operator.mul
op_mul(a, b) ==
    CASE a.k = "nan" \/ b.k = "nan" -> Value(NaN)
      [] a.k = "inf" /\ b.k = "inf" -> Value(Inf(a.n * b.n))
      [] a.k = "inf" -> IF b.n = 0 THEN Value(NaN) ELSE Value(Inf(a.n * Sign(b.n)))
      [] b.k = "inf" -> IF a.n = 0 THEN Value(NaN) ELSE Value(Inf(b.n * Sign(a.n)))
      [] OTHER -> Value(Num(a.n * b.n))

\* operator.truediv; the expressions of the model divide finite numbers
\* with an integral quotient, or by zero
op_truediv(a, b) ==
    CASE a.k = "num" /\ b.k = "num" /\ b.n = 0 ->
           Raise("ZeroDivisionError", "division by zero")
      [] a.k = "num" /\ b.k = "num" /\ b.n # 0 /\ a.n % b.n = 0 ->
           Value(Num(a.n \div b.n))

\* operator.pow; the expressions of the model raise an int to an int >= 0
RECURSIVE int_pow(_, _)
int_pow(a, b) == IF b = 0 THEN 1 ELSE a * int_pow(a, b - 1)

op_pow(a, b) ==
    CASE a.k = "num" /\ b.k = "num" /\ b.n >= 0 -> Value(Num(int_pow(a.n, b.n)))

\* _ALLOWED_OPS
ALLOWED_OPS == {"Add", "Sub", "Mult", "Div", "Pow", "USub"}

\* _ALLOWED_OPS[type(node.op)](left, right)
apply_binop(op, a, b) ==
    CASE op = "Add" -> op_add(a, b)
      [] op = "Sub" -> op_sub(a, b)
      [] op = "Mult" -> op_mul(a, b)
      [] op = "Div" -> op_truediv(a, b)
      [] op = "Pow" -> op_pow(a, b)

\* _eval(node)
RECURSIVE eval(_)
eval(node) ==
    CASE node.type = "Num" -> Value(node.n)
      [] node.type = "UnaryOp" /\ node.op \in ALLOWED_OPS ->
           LET operand == eval(node.operand) IN
             IF operand.exc # "" THEN operand ELSE op_neg(operand.v)
      [] node.type = "BinOp" /\ node.op \in ALLOWED_OPS ->
           LET left == eval(node.left) IN
             IF left.exc # "" THEN left
             ELSE LET right == eval(node.right) IN
                    IF right.exc # "" THEN right
                    ELSE apply_binop(node.op, left.v, right.v)
      [] OTHER -> Raise("ValueError", "Unsupported operation")

\* AST nodes
NumNode(v) == [type |-> "Num", n |-> v]
BinOp(left, op, right) == [type |-> "BinOp", op |-> op, left |-> left, right |-> right]
UnaryOp(op, operand) == [type |-> "UnaryOp", op |-> op, operand |-> operand]
OtherNode(type) == [type |-> type]

\* the expressions safe_calculate is handed
Expressions ==
    { "2 + 2", "-(5 + 2)", "6 / 3", "1 / 0", "10 ** 9", "-(10 ** 9)",
      "10 ** 9 + 1", "1e999", "1e999 - 1e999", "1e999 * 0", "'a' * 3",
      "2 % 3", "foo(1)", "1 +" }

\* ast.parse(expr, mode="eval").body; <<>> where it raises SyntaxError.
\* The literal 1e999 is read as the float inf.
ast_parse(expr) ==
    CASE expr = "2 + 2" -> <<BinOp(NumNode(Num(2)), "Add", NumNode(Num(2)))>>
      [] expr = "-(5 + 2)" ->
           <<UnaryOp("USub", BinOp(NumNode(Num(5)), "Add", NumNode(Num(2))))>>
      [] expr = "6 / 3" -> <<BinOp(NumNode(Num(6)), "Div", NumNode(Num(3)))>>
      [] expr = "1 / 0" -> <<BinOp(NumNode(Num(1)), "Div", NumNode(Num(0)))>>
      [] expr = "10 ** 9" -> <<BinOp(NumNode(Num(10)), "Pow", NumNode(Num(9)))>>
      [] expr = "-(10 ** 9)" ->
           <<UnaryOp("USub", BinOp(NumNode(Num(10)), "Pow", NumNode(Num(9))))>>
      [] expr = "10 ** 9 + 1" ->
           <<BinOp(BinOp(NumNode(Num(10)), "Pow", NumNode(Num(9))), "Add",
                   NumNode(Num(1)))>>
      [] expr = "1e999" -> <<NumNode(Inf(1))>>
      [] expr = "1e999 - 1e999" -> <<BinOp(NumNode(Inf(1)), "Sub", NumNode(Inf(1)))>>
      [] expr = "1e999 * 0" -> <<BinOp(NumNode(Inf(1)), "Mult", NumNode(Num(0)))>>
      [] expr = "'a' * 3" -> <<BinOp(OtherNode("Str"), "Mult", NumNode(Num(3)))>>
      [] expr = "2 % 3" -> <<BinOp(NumNode(Num(2)), "Mod", NumNode(Num(3)))>>
      [] expr = "foo(1)" -> <<OtherNode("Call")>>
      [] OTHER -> <<>>

\* abs(result) > 1e9: a comparison with nan is False
exceeds_bound(v) ==
    CASE v.k = "nan" -> FALSE
      [] v.k = "inf" -> TRUE
      [] OTHER -> v.n > SanityBound \/ 0 - v.n > SanityBound

\* round(result, 6): the values of the model are integral, nan stays nan
round6(v) == v

\* safe_calculate(expr): every Exception of the try block is raised again
\* as ValueError("Invalid expression: ...")
safe_calculate(expr) ==
    LET parsed == ast_parse(expr)
        result == IF parsed = <<>>
                  THEN Raise("SyntaxError", "invalid syntax")
                  ELSE eval(parsed[1])
        checked == IF result.exc = "" /\ exceeds_bound(result.v)
                   THEN Raise("ValueError", "Result out of allowed range")
                   ELSE result
    IN  IF checked.exc # ""
        THEN [raised |-> TRUE, exc |-> "ValueError",
              text |-> <<"Invalid expression:", checked.msg>>, value |-> NaN]
        ELSE [raised |-> FALSE, exc |-> "", text |-> <<>>, value |-> round6(checked.v)]

\* ToolCall(name=..., arguments=..., result=...); the timestamp is left out
ToolCall(name, arguments, result) ==
    [name |-> name, arguments |-> arguments, result |-> result]

(***************************************************************************)
(* Run state (src/graph/state.py) and the position of the run              *)
(***************************************************************************)
VARIABLES
    query,             \* State["query"]
    retrieved_chunks,  \* State["retrieved_chunks"]
    final_answer,      \* State["final_answer"]
    citations,         \* State["citations"]
    messages,          \* State["messages"]
    tool_calls,        \* State["tool_calls"]
    iteration_count,   \* State["iteration_count"]
    pc,                \* the node or edge function that runs next
    hop,               \* tool_node: iterations of the for loop started
    batch,             \* tool_node: invocations of this round not yet executed
    loop_answer,       \* tool_node: the local final_answer (<<>> for None)
    agent_scratchpad,  \* tool_node: the observations folded in so far
    visited,           \* history: what has executed since Initialize
    consulted,         \* history: the last router call asked the completion service
    fn,                \* guard policy called directly: the function applied
    arg,               \* guard policy called directly: its arguments
    ret,               \* guard policy called directly: its result
    answer_calls,      \* history: generate_tool_call_answer calls of this tool_node
    cached_index,      \* registry._index: NoHandle for None
    cached_chunks,     \* registry._chunks: NoHandle for None
    index_loads,       \* history: executions of load_index()
    chunks_loads,      \* history: executions of load_chunks()
    callers            \* the callers of load_index_and_chunks: position and result

state == <<query, retrieved_chunks, final_answer, citations, messages,
           tool_calls, iteration_count>>

locals == <<hop, batch, loop_answer, agent_scratchpad, answer_calls>>

\* the module globals of src/graph/registry.py and their callers
cache == <<cached_index, cached_chunks, index_loads, chunks_loads, callers>>

\* a direct call of a policy function, outside any run of the graph
call == <<fn, arg, ret>>

vars == <<query, retrieved_chunks, final_answer, citations, messages,
          tool_calls, iteration_count, pc, hop, batch, loop_answer,
          agent_scratchpad, visited, consulted, fn, arg, ret, answer_calls,
          cached_index, cached_chunks, index_loads, chunks_loads, callers>>

NodeName == [RAG |-> "rag", FINALIZE |-> "finalize", TOOL |-> "tool"]

\* build_initial_state(query)
build_initial_state(q) ==
    [query |-> q, retrieved_chunks |-> <<>>, final_answer |-> <<>>,
     citations |-> <<>>, messages |-> <<>>, tool_calls |-> <<>>,
     iteration_count |-> 0]

\* a state left over from an earlier run, handed to graph.invoke again
StaleState(q) ==
    [query |-> q, retrieved_chunks |-> <<ChunkTable[2]>>,
     final_answer |-> <<"old">>, citations |-> <<"overtime.md">>,
     messages |-> <<[role |-> "assistant", content |-> <<"old">>]>>,
     tool_calls |-> <<ToolCall("clear_events", <<>>, <<"None">>)>>,
     iteration_count |-> 1]

\* the states the caller hands to graph.invoke
InvokeStates == UNION {{build_initial_state(q), StaleState(q)} : q \in Queries}

\* None as the value of a module global of the registry; a loaded handle is
\* the number of the load that produced it
NoHandle == 0

Callers == 1..MaxCallers

\* no thread is inside load_index_and_chunks
IdleCallers ==
    [c \in Callers |-> [pc |-> "idle", calls |-> 0, seen_index |-> NoHandle,
                        returned |-> <<>>]]

\* no policy function is being called directly
NoArguments ==
    [text |-> <<>>, chunks |-> <<>>, paths |-> <<>>, indices |-> <<>>, expr |-> ""]

Init ==
    /\ \E s \in InvokeStates :
         /\ query = s.query
         /\ retrieved_chunks = s.retrieved_chunks
         /\ final_answer = s.final_answer
         /\ citations = s.citations
         /\ messages = s.messages
         /\ tool_calls = s.tool_calls
         /\ iteration_count = s.iteration_count
         \* the process that ran the earlier run has loaded the index
         /\ cached_index = IF s.retrieved_chunks # <<>> THEN 1 ELSE NoHandle
         /\ cached_chunks = cached_index
         /\ index_loads = cached_index
         /\ chunks_loads = cached_index
    /\ callers = IdleCallers
    /\ answer_calls = <<>>
    /\ pc = "initialize"
    /\ hop = 0
    /\ batch = <<>>
    /\ loop_answer = <<>>
    /\ agent_scratchpad = <<>>
    /\ visited = {}
    /\ consulted = FALSE
    /\ fn = "none"
    /\ arg = NoArguments
    /\ ret = <<>>

(***************************************************************************)
(* Nodes and edges (src/graph/nodes.py, src/graph/build_graph.py)          *)
(***************************************************************************)
\* an initialize_node that returns the state it was given
InitializeNodeKeeps ==
    /\ pc = "initialize"
    /\ pc' = "guard"
    /\ visited' = {"initialize"}
    /\ UNCHANGED <<state, locals>>
    /\ UNCHANGED <<consulted, call, cache>>

\* initialize_node, then the edge initialize -> guard
InitializeNode ==
    /\ pc = "initialize"
    /\ LET s == build_initial_state(query) IN
         /\ query' = s.query
         /\ retrieved_chunks' = s.retrieved_chunks
         /\ final_answer' = s.final_answer
         /\ citations' = s.citations
         /\ messages' = s.messages
         /\ tool_calls' = s.tool_calls
         /\ iteration_count' = s.iteration_count
    /\ pc' = "guard"
    /\ visited' = {"initialize"}
    /\ UNCHANGED locals
    /\ UNCHANGED <<consulted, call, cache>>

\* guard_node
GuardNode ==
    /\ pc = "guard"
    /\ LET g == apply_guards(query, None, None) IN
         IF ~g.passed
         THEN /\ final_answer' = g.refusal_msg[1]
              /\ query' = IF TruthyOptional(g.masked_query) /\ g.masked_query[1] # query
                          THEN g.masked_query[1] ELSE query
         ELSE UNCHANGED <<final_answer, query>>
    /\ pc' = "guard_router"
    /\ visited' = visited \cup {"guard"}
    /\ UNCHANGED <<retrieved_chunks, citations, messages, tool_calls,
                   iteration_count, locals>>
    /\ UNCHANGED <<consulted, call, cache>>

\* a guard_router that always hands over to router
guard_router_never(answer) == FALSE

\* the test of guard_router: a non-blank final_answer short-circuits
guard_router_finalizes(answer) == Truthy(answer) /\ Truthy(strip(answer))

\* a pre-check that fires one execution early
ceiling_hit_inclusive(count) == count >= MAX_NODE_ITERATIONS

\* a pre-check that lets one more work node through
ceiling_hit_late(count) == count > MAX_NODE_ITERATIONS + 1

\* the deterministic pre-check of router
ceiling_hit(count) == count > MAX_NODE_ITERATIONS

\* a router that looks for a node name anywhere in the content
router_decision_contains(content) ==
    LET decision == lower(strip(content)) IN
    IF NodeName.RAG \in Tokens(decision) THEN NodeName.RAG
    ELSE IF NodeName.TOOL \in Tokens(decision) THEN NodeName.TOOL
    ELSE NodeName.FINALIZE

\* router, from the completion's message content to the returned node name
router_decision(content) ==
    LET decision == lower(strip(content)) IN
    IF decision \notin {<<NodeName.RAG>>, <<NodeName.TOOL>>, <<NodeName.FINALIZE>>}
    THEN NodeName.FINALIZE
    ELSE decision[1]

\* router(state): no completion call above the ceiling, one call otherwise.
\* The model lets the service choose rag only while tool_calls is below MaxLog.
Router ==
    IF ceiling_hit(iteration_count)
    THEN /\ pc' = NodeName.FINALIZE
         /\ consulted' = FALSE
         /\ UNCHANGED visited
    ELSE \E content \in RouterContents :
           /\ router_decision(content) = NodeName.RAG => Len(tool_calls) < MaxLog
           /\ pc' = router_decision(content)
           /\ visited' = visited \cup {"router_llm"}
           /\ consulted' = TRUE

\* the conditional edge after guard
GuardRouter ==
    /\ pc = "guard_router"
    /\ IF guard_router_finalizes(final_answer)
       THEN /\ pc' = NodeName.FINALIZE
            /\ UNCHANGED <<visited, consulted>>
       ELSE Router
    /\ UNCHANGED <<state, locals, call, cache>>

\* the conditional edge after rag and after tool
RouterEdge ==
    /\ pc = "router"
    /\ Router
    /\ UNCHANGED <<state, locals, call, cache>>

\* the sources of the whole chunk table, whatever was retrieved
all_sources(chunks) == {ChunkTable[i].source : i \in DOMAIN ChunkTable}

\* the source of the best hit only
first_source(chunks) == IF chunks = <<>> THEN {} ELSE {chunks[1].source}

\* set(chunk["source"] for chunk in retrieved_chunks)
cited_sources(chunks) == {chunks[i].source : i \in DOMAIN chunks}

\* list(s): the elements of a set in some order, each once
list_of_set(s) ==
    {l \in [1..Cardinality(s) -> s] : \A i, j \in DOMAIN l : l[i] = l[j] => i = j}

\* insertion at the front instead of the end
prepend(list, item) == <<item>> \o list

\* list.append
append(list, item) == Append(list, item)

\* load_index_and_chunks() run by one thread without interruption
LoadIndexAndChunks ==
    /\ IF cached_index = NoHandle
       THEN /\ index_loads' = index_loads + 1
            /\ cached_index' = index_loads + 1
            /\ chunks_loads' = chunks_loads + 1
            /\ cached_chunks' = chunks_loads + 1
       ELSE UNCHANGED <<cached_index, cached_chunks, index_loads, chunks_loads>>
    /\ UNCHANGED callers

\* a work node that keeps the answer an earlier node has set
keep_earlier(old, new) == IF Truthy(old) THEN old ELSE new

\* state["final_answer"] = ... in rag_node and tool_node
overwrite(old, new) == new

\* a rag_node that keeps no record of its answer
record_rag_skipped(log, q, answer) == log

\* state["tool_calls"].append(ToolCall(name=NodeName.RAG.value, ...))
record_rag(log, q, answer) == append(log, ToolCall(NodeName.RAG, q, answer))

\* rag_node, then the edge to router
RagNode ==
    /\ pc = "rag"
    /\ LoadIndexAndChunks
    /\ \E indices \in SearchResults :
         LET retrieved == retrieve(ChunkTable, indices)
             g == check_grounding_required(query, retrieved)
         IN  IF ~g.is_grounded /\ TruthyOptional(g.error)
             THEN /\ final_answer' = overwrite(final_answer, g.error[1])
                  /\ retrieved_chunks' = retrieved
                  /\ citations' = <<>>
                  /\ UNCHANGED <<tool_calls, iteration_count>>
             ELSE \E content \in AnswerContents :
                    LET answer == strip(content) IN
                      /\ retrieved_chunks' = retrieved
                      /\ final_answer' = overwrite(final_answer, answer)
                      /\ citations' \in list_of_set(cited_sources(retrieved))
                      /\ tool_calls' = record_rag(tool_calls, query, answer)
                      /\ iteration_count' = iteration_count + 1
    /\ pc' = "router"
    /\ visited' = visited \cup {"rag"}
    /\ UNCHANGED <<query, messages, locals>>
    /\ UNCHANGED <<consulted, call>>

\* a loop that runs one iteration too many
range_has_next_inclusive(done) == done <= MAX_TOOL_HOPS

\* for _ in range(MAX_TOOL_HOPS): is there a next iteration after `done` ones
range_has_next(done) == done < MAX_TOOL_HOPS

\* the batches of tool invocations one completion can carry
Batches == UNION {[1..n -> Proposals] : n \in 1..MaxBatch}

\* a tool_node that keeps its prompt transcript in state["messages"]
ToolNodeEnterSharedTranscript ==
    /\ pc = "tool"
    /\ hop' = 0
    /\ batch' = <<>>
    /\ loop_answer' = <<>>
    /\ agent_scratchpad' = <<>>
    /\ answer_calls' = <<>>
    /\ pc' = "tool_loop"
    /\ visited' = visited \cup {"tool"}
    /\ messages' = Append(messages, [role |-> "system", content |-> <<"tools">>])
    /\ UNCHANGED <<query, retrieved_chunks, final_answer, citations, tool_calls,
                   iteration_count>>
    /\ UNCHANGED <<consulted, call, cache>>

\* tool_node up to the for loop
ToolNodeEnter ==
    /\ pc = "tool"
    /\ hop' = 0
    /\ batch' = <<>>
    /\ loop_answer' = <<>>
    /\ agent_scratchpad' = <<>>
    /\ answer_calls' = <<>>
    /\ pc' = "tool_loop"
    /\ visited' = visited \cup {"tool"}
    /\ UNCHANGED state
    /\ UNCHANGED <<consulted, call, cache>>

\* one iteration of the for loop up to the inner loop: the completion call
\* and the test of choice.tool_calls.  The model lets the service propose
\* tools only while tool_calls stays within MaxLog.
ToolRound ==
    /\ pc = "tool_loop"
    /\ range_has_next(hop)
    /\ hop' = hop + 1
    /\ \/ \E content \in AnswerContents :
            /\ loop_answer' = strip(content)
            /\ batch' = <<>>
            /\ pc' = "tool_after"
       \/ \E b \in Batches :
            /\ Len(tool_calls) + Len(b) <= MaxLog
            /\ batch' = b
            /\ pc' = "tool_exec"
            /\ UNCHANGED loop_answer
    /\ UNCHANGED <<state, agent_scratchpad, answer_calls, visited>>
    /\ UNCHANGED <<consulted, call, cache>>

\* an inner loop left after its first invocation
inner_loop_break(rest) == "tool_loop"

\* for tool_call in tool_calls: the next invocation of the batch if there is
\* one, the next iteration of the outer loop otherwise
inner_loop_next(rest) == IF rest = <<>> THEN "tool_loop" ELSE "tool_exec"

\* one pass of the inner loop over tool_calls
ToolExec ==
    /\ pc = "tool_exec"
    /\ batch # <<>>
    /\ LET tool_call == Head(batch)
           tool_name == tool_call.name
       IN  IF ~JsonDecodes(tool_call.arguments) \/ tool_name \notin ToolNames
           THEN \* JSONDecodeError or KeyError, outside the try block
                /\ pc' = "raised"
                /\ UNCHANGED <<tool_calls, batch, agent_scratchpad>>
           ELSE LET tool_args == json_loads(tool_call.arguments) IN
                \E o \in ToolOutcomes(tool_name, tool_args) :
                  LET result == IF o.raised THEN <<"Error:">> \o o.text ELSE o.text IN
                    /\ tool_calls' = append(tool_calls,
                                            ToolCall(tool_name, tool_args, result))
                    /\ agent_scratchpad' =
                         Append(agent_scratchpad,
                                [action |-> tool_name, action_input |-> tool_args,
                                 observation |-> result])
                    /\ batch' = Tail(batch)
                    /\ pc' = inner_loop_next(Tail(batch))
    /\ UNCHANGED <<query, retrieved_chunks, final_answer, citations, messages,
                   iteration_count, hop, loop_answer, answer_calls, visited>>
    /\ UNCHANGED <<consulted, call, cache>>

\* a history made of the observations of this execution only
tool_history_local(log, pad) ==
    [i \in DOMAIN pad |->
        ToolCall(pad[i].action, pad[i].action_input, pad[i].observation)]

\* the tool_calls argument of generate_tool_call_answer: state["tool_calls"]
tool_history(log, pad) == log

\* tool_node after the for loop, then the edge to router
ToolNodeReturn ==
    /\ \/ pc = "tool_after"
       \/ pc = "tool_loop" /\ ~range_has_next(hop)
    /\ IF ~Truthy(loop_answer)
       THEN \* generate_tool_call_answer(query, state["tool_calls"])
            \E content \in AnswerContents :
              /\ final_answer' = overwrite(final_answer, strip(content))
              /\ answer_calls' =
                   Append(answer_calls,
                          [query |-> query,
                           tool_calls |-> tool_history(tool_calls, agent_scratchpad),
                           result |-> strip(content)])
       ELSE /\ final_answer' = overwrite(final_answer, loop_answer)
            /\ UNCHANGED answer_calls
    /\ iteration_count' = iteration_count + 1
    /\ pc' = "router"
    /\ hop' = 0
    /\ batch' = <<>>
    /\ loop_answer' = <<>>
    /\ agent_scratchpad' = <<>>
    /\ UNCHANGED <<query, retrieved_chunks, citations, messages, tool_calls, visited>>
    /\ UNCHANGED <<consulted, call, cache>>

\* a finalize_node without the test of final_answer
FinalizeNodeUnconditional ==
    /\ pc = NodeName.FINALIZE
    /\ LET masked_answer == mask_pii(final_answer) IN
         /\ final_answer' = masked_answer
         /\ messages' = append(messages,
                               [role |-> "assistant", content |-> masked_answer])
    /\ pc' = "end"
    /\ visited' = visited \cup {"finalize"}
    /\ UNCHANGED <<query, retrieved_chunks, citations, tool_calls, iteration_count,
                   locals>>
    /\ UNCHANGED <<consulted, call, cache>>

\* finalize_node, then the edge finalize -> END
FinalizeNode ==
    /\ pc = NodeName.FINALIZE
    /\ IF Truthy(final_answer)
       THEN LET masked_answer == mask_pii(final_answer) IN
              /\ final_answer' = masked_answer
              /\ messages' = append(messages,
                                    [role |-> "assistant", content |-> masked_answer])
       ELSE UNCHANGED <<final_answer, messages>>
    /\ pc' = "end"
    /\ visited' = visited \cup {"finalize"}
    /\ UNCHANGED <<query, retrieved_chunks, citations, tool_calls, iteration_count,
                   locals>>
    /\ UNCHANGED <<consulted, call, cache>>

Next ==
    \/ InitializeNode
    \/ GuardNode
    \/ GuardRouter
    \/ RouterEdge
    \/ RagNode
    \/ ToolNodeEnter
    \/ ToolRound
    \/ ToolExec
    \/ ToolNodeReturn
    \/ FinalizeNode

Spec == Init /\ [][Next]_vars

\* graph.invoke runs the next node or edge whenever there is one
FairSpec == Spec /\ WF_vars(Next)

(***************************************************************************)
(* The policy functions and the router's decision called directly, as the  *)
(* tests of src/tests/test_guards.py do: one call per behaviour, on        *)
(* arguments drawn from the sets below, and mask_pii once more on its own  *)
(* result.                                                                 *)
(***************************************************************************)
GuardVocabulary ==
    { "Sue", "doctor", "investment", "draft a document",
      "allowance", "what", "what is", "When", "hello",
      "john.doe@example.com", "123-45-6789", "123.456.7890",
      "4111111111111111", "123-45-6789@example.com", "[REDACTED_SSN]" }

GuardTexts ==
    UNION {[1..n -> GuardVocabulary] : n \in 0..MaxText} \cup RouterContents

\* retrieved_chunks: not supplied, empty, one chunk
GuardChunks == {None, Some(<<>>), Some(<<ChunkTable[1]>>)}

\* file_paths: not supplied, empty, and lists of valid and invalid paths
GuardPaths ==
    { None, Some(<<>>),
      Some(<<"/proj/data/sandbox/test.txt">>),
      Some(<<"data/sandbox/test.txt", "data/sandbox/../../secret", "/etc/passwd">>),
      Some(<<"/etc/passwd", "data/sandbox/../../secret">>),
      Some(<<"data/sandbox/a\\0b", "data/sandbox/link/passwd">>),
      Some(<<"data/sandbox/link/passwd">>),
      Some(<<"data/sandbox/sub/../test.txt">>) }

\* indices: what index.search returns during a call of retrieve; expr: the
\* expression handed to safe_calculate
GuardArguments ==
    [text : GuardTexts, chunks : GuardChunks, paths : GuardPaths, indices : {<<>>},
     expr : {""}]

\* everything a run of the graph owns
run == <<state, locals, pc, visited, consulted>>

GuardInit ==
    /\ query = <<>>
    /\ retrieved_chunks = <<>>
    /\ final_answer = <<>>
    /\ citations = <<>>
    /\ messages = <<>>
    /\ tool_calls = <<>>
    /\ iteration_count = 0
    /\ pc = "direct"
    /\ hop = 0
    /\ batch = <<>>
    /\ loop_answer = <<>>
    /\ agent_scratchpad = <<>>
    /\ visited = {}
    /\ consulted = FALSE
    /\ fn = "none"
    /\ arg \in GuardArguments
    /\ ret = <<>>
    /\ answer_calls = <<>>
    /\ cached_index = NoHandle
    /\ cached_chunks = NoHandle
    /\ index_loads = 0
    /\ chunks_loads = 0
    /\ callers = IdleCallers

\* mask_pii(text)
MaskPiiCall ==
    /\ fn = "none"
    /\ fn' = "mask_pii"
    /\ ret' = mask_pii(arg.text)
    /\ UNCHANGED <<arg, run, cache>>

\* mask_pii(masked): the result of the first call masked once more
MaskPiiAgainCall ==
    /\ fn = "mask_pii"
    /\ fn' = "mask_pii_again"
    /\ arg' = [arg EXCEPT !.text = ret]
    /\ ret' = mask_pii(ret)
    /\ UNCHANGED <<run, cache>>

\* check_refuse_patterns(query)
CheckRefusePatternsCall ==
    /\ fn = "none"
    /\ fn' = "check_refuse_patterns"
    /\ ret' = check_refuse_patterns(arg.text)
    /\ UNCHANGED <<arg, run, cache>>

\* check_grounding_required(query, retrieved_chunks), called with a list
CheckGroundingRequiredCall ==
    /\ fn = "none"
    /\ arg.chunks # None
    /\ fn' = "check_grounding_required"
    /\ ret' = check_grounding_required(arg.text, arg.chunks[1])
    /\ UNCHANGED <<arg, run, cache>>

\* apply_guards(query, retrieved_chunks, file_paths)
ApplyGuardsCall ==
    /\ fn = "none"
    /\ fn' = "apply_guards"
    /\ ret' = apply_guards(arg.text, arg.chunks, arg.paths)
    /\ UNCHANGED <<arg, run, cache>>

\* router below the ceiling, on a completion whose content is the text
RouterCall ==
    /\ fn = "none"
    /\ fn' = "router"
    /\ ret' = router_decision(arg.text)
    /\ UNCHANGED <<arg, run, cache>>

\* validate_file_path(file_path) on one of the paths
ValidateFilePathCall ==
    /\ fn = "none"
    /\ arg.paths # None
    /\ \E i \in DOMAIN arg.paths[1] :
         /\ arg' = [arg EXCEPT !.paths = Some(<<arg.paths[1][i]>>)]
         /\ ret' = validate_file_path(arg.paths[1][i])
    /\ fn' = "validate_file_path"
    /\ UNCHANGED <<run, cache>>

\* retrieve(query, index, chunks, k=TOP_K) on the loaded chunk table
RetrieveCall ==
    /\ fn = "none"
    /\ arg.chunks = None
    /\ arg.paths = None
    /\ \E indices \in SearchResults :
         /\ arg' = [arg EXCEPT !.indices = indices]
         /\ ret' = retrieve(ChunkTable, indices)
    /\ fn' = "retrieve"
    /\ UNCHANGED <<run, cache>>

\* safe_calculate(expr)
SafeCalculateCall ==
    /\ fn = "none"
    /\ arg.chunks = None
    /\ arg.paths = None
    /\ \E expr \in Expressions :
         /\ arg' = [arg EXCEPT !.expr = expr]
         /\ ret' = safe_calculate(expr)
    /\ fn' = "safe_calculate"
    /\ UNCHANGED <<run, cache>>

GuardNext ==
    \/ MaskPiiCall
    \/ MaskPiiAgainCall
    \/ CheckRefusePatternsCall
    \/ CheckGroundingRequiredCall
    \/ ApplyGuardsCall
    \/ RouterCall
    \/ ValidateFilePathCall
    \/ RetrieveCall
    \/ SafeCalculateCall

GuardSpec == GuardInit /\ [][GuardNext]_vars

(***************************************************************************)
(* load_index_and_chunks (src/graph/registry.py) called by MaxCallers       *)
(* threads, MaxCalls times each.  The function takes no lock: a thread can *)
(* be suspended between any two of its reads and writes of the module      *)
(* globals, so each of them is a step.                                     *)
(***************************************************************************)
LoadInit ==
    /\ query = <<>>
    /\ retrieved_chunks = <<>>
    /\ final_answer = <<>>
    /\ citations = <<>>
    /\ messages = <<>>
    /\ tool_calls = <<>>
    /\ iteration_count = 0
    /\ pc = "direct"
    /\ hop = 0
    /\ batch = <<>>
    /\ loop_answer = <<>>
    /\ agent_scratchpad = <<>>
    /\ answer_calls = <<>>
    /\ visited = {}
    /\ consulted = FALSE
    /\ fn = "none"
    /\ arg = NoArguments
    /\ ret = <<>>
    /\ cached_index = NoHandle
    /\ cached_chunks = NoHandle
    /\ index_loads = 0
    /\ chunks_loads = 0
    /\ callers = IdleCallers

\* a thread enters load_index_and_chunks()
BeginLoadCall(c) ==
    /\ callers[c].pc = "idle"
    /\ callers[c].calls < MaxCalls
    /\ callers' = [callers EXCEPT ![c].pc = "test"]
    /\ UNCHANGED <<cached_index, cached_chunks, index_loads, chunks_loads>>
    /\ UNCHANGED <<run, call>>

\* if _index is None:
TestIndex(c) ==
    /\ callers[c].pc = "test"
    /\ callers' = [callers EXCEPT ![c].pc = IF cached_index = NoHandle
                                             THEN "load_index" ELSE "read_index"]
    /\ UNCHANGED <<cached_index, cached_chunks, index_loads, chunks_loads>>
    /\ UNCHANGED <<run, call>>

\* _index = load_index()
StoreIndex(c) ==
    /\ callers[c].pc = "load_index"
    /\ index_loads' = index_loads + 1
    /\ cached_index' = index_loads + 1
    /\ callers' = [callers EXCEPT ![c].pc = "load_chunks"]
    /\ UNCHANGED <<cached_chunks, chunks_loads, run, call>>

\* _chunks = load_chunks()
StoreChunks(c) ==
    /\ callers[c].pc = "load_chunks"
    /\ chunks_loads' = chunks_loads + 1
    /\ cached_chunks' = chunks_loads + 1
    /\ callers' = [callers EXCEPT ![c].pc = "read_index"]
    /\ UNCHANGED <<cached_index, index_loads, run, call>>

\* return _index, _chunks: the read of _index
ReadIndex(c) ==
    /\ callers[c].pc = "read_index"
    /\ callers' = [callers EXCEPT ![c].pc = "read_chunks",
                                  ![c].seen_index = cached_index]
    /\ UNCHANGED <<cached_index, cached_chunks, index_loads, chunks_loads>>
    /\ UNCHANGED <<run, call>>

\* return _index, _chunks: the read of _chunks and the return
ReturnPair(c) ==
    /\ callers[c].pc = "read_chunks"
    /\ callers' = [callers EXCEPT ![c].pc = "idle",
                                  ![c].calls = @ + 1,
                                  ![c].returned = <<callers[c].seen_index, cached_chunks>>]
    /\ UNCHANGED <<cached_index, cached_chunks, index_loads, chunks_loads>>
    /\ UNCHANGED <<run, call>>

LoadNext ==
    \E c \in Callers :
        \/ BeginLoadCall(c)
        \/ TestIndex(c)
        \/ StoreIndex(c)
        \/ StoreChunks(c)
        \/ ReadIndex(c)
        \/ ReturnPair(c)

LoadSpec == LoadInit /\ [][LoadNext]_vars

(***************************************************************************)
(* Properties                                                              *)
(***************************************************************************)
Terminal == pc = "end"

Refused == check_refuse_patterns(query).refuse

\* the tokens any PII pattern matches
PIITokens == UNION {PII_PATTERNS[i].matches : i \in DOMAIN PII_PATTERNS}

\* the source identifiers of a list of chunks
SourcesOf(chunks) == {chunks[i].source : i \in DOMAIN chunks}

\* the invocation has the name and the decoded arguments of a record of log
IsDuplicate(tool_call, log) ==
    /\ JsonDecodes(tool_call.arguments)
    /\ \E i \in DOMAIN log :
         /\ log[i].name = tool_call.name
         /\ log[i].arguments = json_loads(tool_call.arguments)

\* C1: every run started at Initialize eventually reaches Terminal (Finalize
\* has run and the machine has halted), whatever the completion service,
\* retrieval and the tools do.
C1_RunReachesTerminal == <>Terminal

\* C2: one execution of tool_node makes at most MAX_TOOL_HOPS proposal
\* rounds (completion calls that may request tools); once the rounds are
\* used up no further round can start and tool_node returns.
C2_HopCeiling ==
    /\ hop <= MAX_TOOL_HOPS
    /\ (pc = "tool_loop" /\ hop = MAX_TOOL_HOPS)
         => (~ENABLED ToolRound /\ ENABLED ToolNodeReturn)

\* C2 witness: all MAX_TOOL_HOPS rounds were used, each proposed a tool call
\* never seen before, and tool_node is about to return.
C2_Witness ==
    /\ pc = "tool_loop"
    /\ hop = MAX_TOOL_HOPS
    /\ Len(agent_scratchpad) = MAX_TOOL_HOPS
    /\ \A i, j \in DOMAIN agent_scratchpad :
         i # j => <<agent_scratchpad[i].action, agent_scratchpad[i].action_input>>
                  # <<agent_scratchpad[j].action, agent_scratchpad[j].action_input>>

\* C3: in the tool loop, an invocation with the name and arguments of a
\* record already in tool_calls is not executed again (no record is added),
\* the rest of the batch is skipped and the loop is left.
C3_DuplicateSuppressed ==
    [][(pc = "tool_exec" /\ IsDuplicate(Head(batch), tool_calls))
         => (tool_calls' = tool_calls /\ pc' \notin {"tool_exec", "tool_loop"})]_vars

\* C4: when the guard refuses the query the run goes guard -> finalize: the
\* router's completion call, rag_node and tool_node never execute, and
\* tool_calls and retrieved_chunks stay empty and iteration_count stays 0.
C4_RefusedSkipsWork ==
    (Refused /\ pc # "initialize") =>
        /\ pc \in {"guard", "guard_router", "finalize", "end"}
        /\ visited \cap {"router_llm", "rag", "tool"} = {}
        /\ tool_calls = <<>>
        /\ retrieved_chunks = <<>>
        /\ iteration_count = 0

\* C4 witness: a refused run at Terminal, carrying the refusal message.
C4_Witness ==
    /\ Terminal
    /\ Refused
    /\ visited = {"initialize", "guard", "finalize"}
    /\ final_answer = create_refusal_response("legal")

\* C5: at Terminal final_answer holds no token matching the email, SSN,
\* phone or credit-card pattern.
C5_TerminalAnswerMasked == Terminal => Tokens(final_answer) \cap PIITokens = {}

\* C5 witness: a run that went through the router ended with an answer in
\* which an e-mail address and a card number were replaced.
C5_Witness ==
    /\ Terminal
    /\ "router_llm" \in visited
    /\ final_answer = <<"[REDACTED_EMAIL]", "[REDACTED_CREDIT_CARD]">>

\* C6: every run ends at Terminal with a non-empty final_answer.
C6_TerminalAnswerPopulated == Terminal => Truthy(final_answer)

\* C7: an invocation of an unregistered tool, or one whose arguments do not
\* decode, adds an error record to tool_calls and the loop goes on; no
\* exception leaves tool_node.
C7_BadInvocationRecorded ==
    [][(pc = "tool_exec"
        /\ (Head(batch).name \notin ToolNames \/ ~JsonDecodes(Head(batch).arguments)))
         => (/\ Len(tool_calls') = Len(tool_calls) + 1
             /\ tool_calls'[Len(tool_calls')].name = Head(batch).name
             /\ pc' \in {"tool_exec", "tool_loop"})]_vars

\* C8: iteration_count never decreases after Initialize, and every completed
\* execution of rag_node or tool_node increases it by exactly 1.
C8_OneIncrementPerWorkNode ==
    [][/\ pc # "initialize" => iteration_count' >= iteration_count
       /\ (pc # "router" /\ pc' = "router") => iteration_count' = iteration_count + 1]_vars

\* C9: citations is a subset of the sources of the chunks in
\* retrieved_chunks, and is empty whenever retrieved_chunks is empty.
C9_CitationsWithinRetrieved ==
    /\ Tokens(citations) \subseteq SourcesOf(retrieved_chunks)
    /\ retrieved_chunks = <<>> => citations = <<>>

\* C9 witness: a run with a retrieval and a tool loop ended with one
\* citation out of the two sources of the corpus.
C9_Witness ==
    /\ Terminal
    /\ {"rag", "tool"} \subseteq visited
    /\ Len(citations) = 1

\* C10: after Initialize every step leaves tool_calls unchanged or extends
\* it at the end.
C10_ToolCallsAppendOnly ==
    [][pc # "initialize" => IsPrefix(tool_calls, tool_calls')]_vars

\* C10 witness: a run whose log got a rag record and then a tool record.
C10_Witness ==
    /\ Len(tool_calls) >= 2
    /\ tool_calls[1].name = NodeName.RAG
    /\ tool_calls[2].name # NodeName.RAG

\* C11: every run executes Finalize (exactly once, as the last node before
\* Terminal), on every path including refusal.
C11_FinalizeOnEveryRun == <>("finalize" \in visited)

\* C12: a finalize_node step replaces a non-empty final_answer by
\* mask_pii(final_answer) and appends exactly one assistant message carrying
\* the masked answer; with an empty final_answer it appends nothing and
\* leaves final_answer alone; either way query, retrieved_chunks, citations,
\* tool_calls and iteration_count are unchanged.
C12_FinalizeEffect ==
    [][pc = "finalize" =>
         /\ IF final_answer # <<>>
            THEN /\ final_answer' = mask_pii(final_answer)
                 /\ messages' = messages \o <<[role |-> "assistant",
                                               content |-> mask_pii(final_answer)]>>
            ELSE /\ final_answer' = final_answer
                 /\ messages' = messages
         /\ query' = query
         /\ retrieved_chunks' = retrieved_chunks
         /\ citations' = citations
         /\ tool_calls' = tool_calls
         /\ iteration_count' = iteration_count]_vars

\* C12 witness: finalize_node has run on an answer with PII after work
\* nodes filled the state; the one message carries the masked answer.
C12_Witness ==
    /\ Terminal
    /\ tool_calls # <<>>
    /\ "[REDACTED_EMAIL]" \in Tokens(final_answer)
    /\ messages = <<[role |-> "assistant", content |-> final_answer]>>

\* the router function is about to be called
RouterInvoked ==
    \/ pc = "router"
    \/ pc = "guard_router" /\ strip(final_answer) = <<>>

\* C14: a router call with iteration_count above MAX_NODE_ITERATIONS
\* returns finalize and does not consult the completion service, whatever
\* the rest of the state is.
C14_CeilingForcesFinalize ==
    [][(RouterInvoked /\ iteration_count > MAX_NODE_ITERATIONS)
         => (pc' = "finalize" /\ ~consulted')]_vars

\* C14 witness: the router was called above the ceiling, after earlier
\* calls that did consult the completion service, and chose finalize.
C14_Witness ==
    /\ pc = "finalize"
    /\ iteration_count > MAX_NODE_ITERATIONS
    /\ "router_llm" \in visited
    /\ ~consulted

\* the node names a routing decision can be
Decisions == {"rag", "tool", "finalize"}

\* C13: the router returns retrieval (node name rag), tool or finalize
\* only: a completion content that, trimmed and lower-cased, is exactly one
\* of the three node names is returned as that decision, and any other
\* content yields finalize.
C13_RouterDecision ==
    fn = "router" =>
        LET answer == lower(strip(arg.text)) IN
          /\ ret \in Decisions
          /\ \A d \in Decisions : answer = <<d>> => ret = d
          /\ (\A d \in Decisions : answer # <<d>>) => ret = "finalize"

\* C13 witness: a completion that names both work nodes was answered with
\* finalize.
C13_Witness ==
    /\ fn = "router"
    /\ arg.text = <<"rag", "or", "tool">>
    /\ ret = "finalize"

\* the four PII categories, in the order mask_pii applies them
PIICategories == <<"email", "ssn", "phone", "credit_card">>

\* the vocabulary tokens in which an occurrence of the category is found
PIIOccurrences(category) ==
    CASE category = "email" -> {"john.doe@example.com", "123-45-6789@example.com"}
      [] category = "ssn" -> {"123-45-6789", "123-45-6789@example.com"}
      [] category = "phone" -> {"123.456.7890"}
      [] category = "credit_card" -> {"4111111111111111"}

\* the fixed placeholder of a category
Tag(category) ==
    CASE category = "email" -> "[REDACTED_EMAIL]"
      [] category = "ssn" -> "[REDACTED_SSN]"
      [] category = "phone" -> "[REDACTED_PHONE]"
      [] category = "credit_card" -> "[REDACTED_CREDIT_CARD]"

Tags == {Tag(PIICategories[c]) : c \in DOMAIN PIICategories}

\* some token of the text holds an occurrence of some category
ContainsPII(text) ==
    \E i \in DOMAIN text : \E c \in DOMAIN PIICategories :
        text[i] \in PIIOccurrences(PIICategories[c])

\* C15: mask_pii is idempotent, mask_pii(mask_pii(x)) = mask_pii(x); a
\* placeholder already in the text is never matched, and what one category's
\* replacement leaves is not matched by another category.
C15_MaskIdempotent ==
    /\ fn = "mask_pii_again" => ret = arg.text
    /\ fn = "mask_pii" =>
          \A i \in DOMAIN arg.text : arg.text[i] \in Tags => ret[i] = arg.text[i]

\* C15 witness: a text with a placeholder and an e-mail address was masked
\* twice.
C15_Witness ==
    /\ fn = "mask_pii_again"
    /\ arg.text = <<"[REDACTED_SSN]", "[REDACTED_EMAIL]">>
    /\ ret = arg.text

\* C16 as stated: mask_pii(x) holds no PII match, and every email, SSN,
\* phone and card occurrence of x is replaced by the placeholder of its own
\* category.
C16_EveryOccurrenceByCategory ==
    fn = "mask_pii" =>
        /\ ~ContainsPII(ret)
        /\ \A i \in DOMAIN arg.text : \A c \in DOMAIN PIICategories :
              arg.text[i] \in PIIOccurrences(PIICategories[c])
                => ret[i] = Tag(PIICategories[c])

\* the first category, in the order of PIICategories, occurring in a token
FirstCategory(tok) ==
    PIICategories[CHOOSE c \in DOMAIN PIICategories :
                    /\ tok \in PIIOccurrences(PIICategories[c])
                    /\ \A b \in 1..(c - 1) : tok \notin PIIOccurrences(PIICategories[b])]

\* C16 amended: mask_pii(x) holds no PII match; the categories are replaced
\* in the order email, SSN, phone, card, so every occurrence is replaced by
\* the placeholder of the first category that covers it (an SSN inside an
\* e-mail address goes with the address), and the rest of x is kept.
C16_MaskedByFirstCategory ==
    fn = "mask_pii" =>
        /\ ~ContainsPII(ret)
        /\ Len(ret) = Len(arg.text)
        /\ \A i \in DOMAIN arg.text :
              ret[i] = IF ContainsPII(<<arg.text[i]>>)
                       THEN Tag(FirstCategory(arg.text[i]))
                       ELSE arg.text[i]

\* C16 witness: an SSN alone and an SSN inside an e-mail address were masked.
C16_Witness ==
    /\ fn = "mask_pii"
    /\ arg.text = <<"123-45-6789", "123-45-6789@example.com">>
    /\ ret = <<"[REDACTED_SSN]", "[REDACTED_EMAIL]">>

\* the refusal categories in their fixed order
RefuseOrder == <<"legal", "medical", "financial", "document_generation">>

\* the lower-case vocabulary tokens in which the category's pattern occurs
CategoryTokens(category) ==
    CASE category = "legal" -> {"sue", "lawsuit"}
      [] category = "medical" -> {"doctor", "medicine"}
      [] category = "financial" -> {"investment"}
      [] category = "document_generation" -> {"draft a document"}

\* the positions in RefuseOrder of the categories occurring in the text,
\* whatever the case of its letters
CategoriesIn(text) ==
    {c \in DOMAIN RefuseOrder :
       \E i \in DOMAIN text : Lower(text[i]) \in CategoryTokens(RefuseOrder[c])}

Earliest(positions) == CHOOSE c \in positions : \A b \in positions : c <= b

\* C17: check_refuse_patterns returns (True, c) for the earliest category c,
\* in the order legal, medical, financial, document_generation, whose
\* pattern occurs in the query case-insensitively, and (False, None) when
\* none occurs.
C17_FirstMatchWins ==
    fn = "check_refuse_patterns" =>
        IF CategoriesIn(arg.text) = {}
        THEN ret = [refuse |-> FALSE, category |-> "None"]
        ELSE ret = [refuse |-> TRUE,
                    category |-> RefuseOrder[Earliest(CategoriesIn(arg.text))]]

\* C17 witness: a query naming a medical and, after it and in capitals, a
\* legal topic was refused as legal.
C17_Witness ==
    /\ fn = "check_refuse_patterns"
    /\ arg.text = <<"doctor", "Sue">>
    /\ ret = [refuse |-> TRUE, category |-> "legal"]

\* the supplied paths, none when the argument is absent
SuppliedPaths == IF arg.paths = None THEN <<>> ELSE arg.paths[1]

\* the positions of the supplied paths that are not valid
InvalidPaths ==
    {i \in DOMAIN SuppliedPaths : ~validate_file_path(SuppliedPaths[i]).is_valid}

\* the grounding stage runs and fails
Ungrounded ==
    /\ arg.chunks # None
    /\ ~check_grounding_required(arg.text, arg.chunks[1]).is_grounded

\* C18: the outcome of apply_guards is that of the first failing stage in
\* the order refusal, grounding (only when chunks were supplied), path
\* validation (the first invalid path giving the error); when no stage
\* fails it is (True, None, mask_pii(query)).
C18_FirstFailingStage ==
    fn = "apply_guards" =>
        IF check_refuse_patterns(arg.text).refuse
        THEN /\ ~ret.passed
             /\ ret.refusal_msg =
                  Some(create_refusal_response(check_refuse_patterns(arg.text).category))
        ELSE IF Ungrounded
        THEN /\ ~ret.passed
             /\ ret.refusal_msg = Some(GroundingError)
        ELSE IF InvalidPaths # {}
        THEN /\ ~ret.passed
             /\ ret.refusal_msg =
                  validate_file_path(SuppliedPaths[Earliest(InvalidPaths)]).error
        ELSE ret = [passed |-> TRUE, refusal_msg |-> None,
                    masked_query |-> Some(mask_pii(arg.text))]

\* C18 witness: with a grounding failure and, after a valid path, two
\* invalid paths, apply_guards reported the grounding failure.
C18_Witness ==
    /\ fn = "apply_guards"
    /\ ~check_refuse_patterns(arg.text).refuse
    /\ Ungrounded
    /\ Cardinality(InvalidPaths) = 2
    /\ 1 \notin InvalidPaths
    /\ ret.refusal_msg = Some(GroundingError)

\* C19: when apply_guards fails at the grounding or the path stage, its
\* third result is the masked query mask_pii(query), not None, and its
\* second result is the error message of that stage.
C19_MaskedQueryOnLaterFailure ==
    (fn = "apply_guards" /\ ~ret.passed /\ ~check_refuse_patterns(arg.text).refuse)
      => /\ ret.masked_query = Some(mask_pii(arg.text))
         /\ \/ Ungrounded /\ ret.refusal_msg = Some(GroundingError)
            \/ \E i \in InvalidPaths :
                  ret.refusal_msg = validate_file_path(SuppliedPaths[i]).error

\* C19 witness: a query with an e-mail address failed at the path stage and
\* came back masked.
C19_Witness ==
    /\ fn = "apply_guards"
    /\ ~ret.passed
    /\ arg.text = <<"hello", "john.doe@example.com">>
    /\ ret.refusal_msg = Some(<<"Path", "/etc/passwd", "is outside sandbox directory">>)
    /\ ret.masked_query = Some(<<"hello", "[REDACTED_EMAIL]">>)

\* the vocabulary tokens holding one of the words what, how much, when,
\* where, who, explain, describe, policy, procedure, allowance, rate, formula
StatedFactualTokens == {"what", "what is", "when", "allowance"}

\* C20 as stated: check_grounding_required fails exactly when chunks is
\* empty and the query holds, in any case, one of the words above.
C20_GroundingAsStated ==
    fn = "check_grounding_required" =>
        (~ret.is_grounded <=>
            /\ arg.chunks[1] = <<>>
            /\ \E i \in DOMAIN arg.text : Lower(arg.text[i]) \in StatedFactualTokens)

\* the same tokens with the phrase "what is" in the place of the word "what"
FactualTokens == {"what is", "when", "allowance"}

\* C20 amended: check_grounding_required fails, with the grounding error,
\* exactly when chunks is empty and the query holds, in any case, "what is",
\* how much, when, where, who, explain, describe, policy, procedure,
\* allowance, rate or formula; otherwise it passes with no error.
C20_GroundingFactual ==
    fn = "check_grounding_required" =>
        IF /\ arg.chunks[1] = <<>>
           /\ \E i \in DOMAIN arg.text : Lower(arg.text[i]) \in FactualTokens
        THEN ret = [is_grounded |-> FALSE, error |-> Some(GroundingError)]
        ELSE ret = [is_grounded |-> TRUE, error |-> None]

\* C20 witness: with no chunk, a query asking "When" failed the check.
C20_Witness ==
    /\ fn = "check_grounding_required"
    /\ arg.chunks = Some(<<>>)
    /\ arg.text = <<"When", "what">>
    /\ ~ret.is_grounded

\* the canonical absolute form of each path of the vocabulary, the working
\* directory being /proj and /proj/data/sandbox/link a symbolic link to
\* /etc; <<>> for the path that has none
Canonical(file_path) ==
    CASE file_path = "/proj/data/sandbox/test.txt" ->
           <<"/", "proj", "data", "sandbox", "test.txt">>
      [] file_path = "data/sandbox/test.txt" ->
           <<"/", "proj", "data", "sandbox", "test.txt">>
      [] file_path = "data/sandbox/sub/../test.txt" ->
           <<"/", "proj", "data", "sandbox", "test.txt">>
      [] file_path = "/etc/passwd" -> <<"/", "etc", "passwd">>
      [] file_path = "data/sandbox/../../secret" -> <<"/", "proj", "secret">>
      [] file_path = "data/sandbox/link/passwd" -> <<"/", "etc", "passwd">>
      [] OTHER -> <<>>

\* the canonical form lies within the sandbox root /proj/data/sandbox
WithinSandbox(file_path) ==
    IsPrefix(<<"/", "proj", "data", "sandbox">>, Canonical(file_path))

\* C21: validate_file_path accepts a path, with no error, exactly when its
\* canonical absolute form ('..' and symbolic links resolved) lies within
\* the sandbox root; a path whose canonical form lies outside (/etc/passwd,
\* a path leaving through '..' or through a link) is rejected with the
\* 'outside sandbox' error.
C21_SandboxContainment ==
    fn = "validate_file_path" =>
        LET file_path == arg.paths[1][1] IN
          /\ ret.is_valid <=> WithinSandbox(file_path)
          /\ ret.is_valid => ret.error = None
          /\ (~ret.is_valid /\ Canonical(file_path) # <<>>) =>
                ret.error = Some(<<"Path", file_path, "is outside sandbox directory">>)

\* C21 witness: a relative path that starts under the sandbox and leaves it
\* through '..' was rejected.
C21_Witness ==
    /\ fn = "validate_file_path"
    /\ arg.paths = Some(<<"data/sandbox/../../secret">>)
    /\ ~ret.is_valid
    /\ ret.error # None

\* the tokens of the templates holding a keyword of the category
\* ("documents" holds 'document')
Keywords(category) ==
    CASE category = "legal" -> {"legal", "attorney"}
      [] category = "medical" -> {"medical", "healthcare"}
      [] category = "financial" -> {"financial", "advisor"}
      [] category = "document_generation" -> {"documents", "legal"}

\* C22: at Terminal, a run whose query matches a refusal pattern carries
\* the refusal template of the first matched category, as the guard wrote
\* it (masking changed nothing): it holds 'cannot' and a keyword of that
\* category, and tool_calls is empty.
C22_RefusalTemplate ==
    (Terminal /\ CategoriesIn(query) # {}) =>
        LET category == RefuseOrder[Earliest(CategoriesIn(query))] IN
          /\ final_answer = create_refusal_response(category)
          /\ "cannot" \in Tokens(final_answer)
          /\ Keywords(category) \cap Tokens(final_answer) # {}
          /\ tool_calls = <<>>

\* C22 witness: a query naming a medical and then a legal topic ended with
\* the legal template, which also went into the transcript.
C22_Witness ==
    /\ Terminal
    /\ query = <<"doctor", "Sue">>
    /\ "attorney" \in Tokens(final_answer)
    /\ messages = <<[role |-> "assistant", content |-> final_answer]>>

\* the tools of the registry
Registered == {"safe_calculate", "list_events", "create_event", "clear_events",
               "rag_search", "send_slack_message"}

\* what a registered tool can be seen to do in the model: the texts it
\* returns and the messages it raises with
Returns(name, arguments) ==
    CASE name = "safe_calculate" /\ arguments = "{\"expr\": \"2 + 2\"}" -> {<<"4">>}
      [] name = "list_events" /\ arguments = "{}" -> {<<"[]">>, <<EventListing>>}
      [] name = "create_event" -> {<<"event">>}
      [] OTHER -> {}

RaisesWith(name, arguments) ==
    CASE name = "safe_calculate" /\ arguments = "{\"expr\": \"2 + 2\"}" -> {}
      [] name = "safe_calculate" /\ arguments = "{\"expr\": \"1 / 0\"}" ->
           {<<"Invalid expression: division by zero">>}
      [] name = "list_events" /\ arguments = "{}" -> {}
      [] name = "create_event" -> {<<"Permission denied">>}
      [] OTHER -> {<<"unexpected keyword argument">>}

\* C23: a registered tool that raises in the tool loop is not fatal: the
\* step appends one record whose result is the error message behind the
\* prefix "Error:" (or the returned text when the tool did not raise), and
\* the loop goes on with the next invocation of the batch, or with the next
\* round when the batch is done.
C23_ToolFailureNotFatal ==
    [][(/\ pc = "tool_exec"
        /\ Head(batch).name \in Registered
        /\ JsonDecodes(Head(batch).arguments))
       => LET invocation == Head(batch)
              record == tool_calls'[Len(tool_calls')]
          IN  /\ Len(tool_calls') = Len(tool_calls) + 1
              /\ SubSeq(tool_calls', 1, Len(tool_calls)) = tool_calls
              /\ record.name = invocation.name
              /\ \/ record.result \in Returns(invocation.name, invocation.arguments)
                 \/ \E e \in RaisesWith(invocation.name, invocation.arguments) :
                      record.result = <<"Error:">> \o e
              /\ batch' = Tail(batch)
              /\ pc' = IF Tail(batch) # <<>> THEN "tool_exec" ELSE "tool_loop"
              /\ pc' = "tool_loop" => (ENABLED ToolRound \/ ENABLED ToolNodeReturn)']_vars

\* C23 witness: the first invocation of the first round's batch raised,
\* the second one of that batch was executed all the same, a second round
\* took place and gave the answer tool_node is about to return.
C23_Witness ==
    /\ pc = "tool_after"
    /\ hop = 2
    /\ Len(agent_scratchpad) = 2
    /\ agent_scratchpad[1].observation =
         <<"Error:", "Invalid expression: division by zero">>
    /\ agent_scratchpad[2].observation = <<"4">>
    /\ loop_answer = <<"done">>

\* the query asks for facts ("allowance" is the factual word of Queries)
AsksForFacts == "allowance" \in Tokens(query)

\* rag_node has just failed the grounding check: only rag_node writes the
\* grounding error into final_answer
GroundingFailed ==
    /\ final_answer = <<"Query requires grounding but no documents retrieved">>
    /\ retrieved_chunks = <<>>

\* C24: when retrieval returns no chunk for a query asking for facts,
\* rag_node sets final_answer to the grounding error and leaves citations
\* empty (no answer is generated, nothing is raised), and from the router
\* the run goes to Finalize with that message as its answer.
C24_GroundingFailureIsTheAnswer ==
    [][/\ (pc = "rag" /\ AsksForFacts /\ retrieved_chunks' = <<>>)
          => (GroundingFailed' /\ citations' = <<>> /\ pc' = "router")
       /\ (pc = "router" /\ GroundingFailed)
          => (pc' = "finalize" /\ final_answer' = final_answer)]_vars

\* C25: over any number of load_index_and_chunks calls, concurrent ones
\* included, load_index and load_chunks run at most once each, so the
\* cached handles are written once and never again.
C25_LoadedOnce == index_loads <= 1 /\ chunks_loads <= 1

\* the search found a neighbour: the index of a stored chunk (the vector
\* index writes -1 where it found none)
IsHit(i) == i \in 0..(Len(ChunkTable) - 1)

\* C26: retrieve returns at most k chunks: the stored chunks at the indices
\* the search returned, in the order of the search result, and no chunk the
\* search did not return.
C26_RetrieveReturnsTheHits ==
    fn = "retrieve" =>
        LET hits == SelectSeq(arg.indices, IsHit) IN
          /\ Len(ret) <= TOP_K
          /\ ret = [j \in DOMAIN hits |-> ChunkTable[hits[j] + 1]]

\* C27: a round in which the completion proposes no tool ends the loop at
\* once and its text is the answer: no tool runs in that round, and tool_node
\* returns that text as final_answer without a further completion call.
C27_TextAnswerEndsToolNode ==
    [][ /\ (pc = "tool_loop" /\ pc' = "tool_after") =>
            /\ tool_calls' = tool_calls
            /\ agent_scratchpad' = agent_scratchpad
        /\ pc = "tool_after" =>
            /\ pc' = "router"
            /\ final_answer' = loop_answer
            /\ answer_calls' = answer_calls ]_vars

\* C28: when every one of the MAX_TOOL_HOPS rounds proposed tools, tool_node
\* makes exactly one answer-from-tool-history call, on the query and the
\* complete tool_calls log of the run, and its result becomes final_answer.
C28_OneSynthesisCallOnFullLog ==
    [][ (pc = "tool_loop" /\ hop = MAX_TOOL_HOPS /\ pc' = "router") =>
          /\ Len(answer_calls') = 1
          /\ answer_calls'[1].query = query
          /\ answer_calls'[1].tool_calls = tool_calls
          /\ final_answer' = answer_calls'[1].result ]_vars

\* MAX_TOOL_HOPS rounds of tools after a rag_node record: the call is given
\* the record of rag_node's run as well as the records of the rounds
C28_Witness ==
    /\ pc = "router"
    /\ "tool" \in visited
    /\ Len(answer_calls) = 1
    /\ Len(answer_calls[1].tool_calls) = MAX_TOOL_HOPS + 1
    /\ answer_calls[1].tool_calls = tool_calls
    /\ tool_calls[1].name = "rag"
    /\ final_answer = answer_calls[1].result
    /\ Truthy(final_answer)

\* C29: every invocation tool_node attempts leaves exactly one record at the
\* end of tool_calls, whether the tool returned or failed, carrying the
\* invocation's name and arguments and its result or error text.
C29_OneRecordPerInvocation ==
    [][ pc = "tool_exec" =>
          /\ Len(tool_calls') = Len(tool_calls) + 1
          /\ SubSeq(tool_calls', 1, Len(tool_calls)) = tool_calls
          /\ LET record == tool_calls'[Len(tool_calls')] IN
                /\ record.name = Head(batch).name
                /\ JsonDecodes(Head(batch).arguments) =>
                      record.arguments = json_loads(Head(batch).arguments)
                /\ record.result = agent_scratchpad'[Len(agent_scratchpad')].observation ]_vars

\* characters of a text
RECURSIVE text_len(_)
text_len(text) == IF text = <<>> THEN 0 ELSE Len(Head(text)) + text_len(Tail(text))

\* C30: every observation folded into the scratchpad carries at most about
\* 500 characters of the tool result; a longer result is truncated.
C30_ObservationTruncated ==
    \A i \in DOMAIN agent_scratchpad :
        text_len(agent_scratchpad[i].observation) <= 500

\* C31: a query that holds PII and matches no refusal pattern is not refused:
\* guard_node hands the run to the router with no answer set, and the query
\* of the run is from then on the PII-masked variant of the original query.
C31_PassedQueryIsMasked ==
    [][ /\ (pc = "guard" /\ ContainsPII(query) /\ ~Refused) =>
            /\ ~guard_router_finalizes(final_answer')
            /\ ~ContainsPII(query')
            /\ query' = [i \in DOMAIN query |->
                           IF query[i] \in PIITokens
                           THEN Placeholder(PII_PATTERNS[
                                    CHOOSE j \in DOMAIN PII_PATTERNS :
                                      query[i] \in PII_PATTERNS[j].matches].pii_type)
                           ELSE query[i]]
        /\ pc \in {"guard_router", "router", "rag", "tool", "tool_loop",
                   "tool_exec", "tool_after"} => query' = query ]_vars

\* C32: whatever state the caller handed in, the step of Initialize leaves
\* the fresh state of the incoming query: query kept, retrieved_chunks,
\* citations, messages and tool_calls empty, final_answer empty and
\* iteration_count 0.
C32_InitializeResets ==
    [][ pc = "initialize" =>
          /\ query' = query
          /\ retrieved_chunks' = <<>>
          /\ citations' = <<>>
          /\ messages' = <<>>
          /\ tool_calls' = <<>>
          /\ final_answer' = <<>>
          /\ iteration_count' = 0 ]_vars

\* Initialize has run on a state left over from an earlier run (the process
\* still holds the index that run loaded) and nothing of it is left
C32_Witness ==
    /\ pc = "guard"
    /\ visited = {"initialize"}
    /\ cached_index # NoHandle
    /\ query \in Queries
    /\ <<retrieved_chunks, citations, messages, tool_calls>> = <<<<>>, <<>>, <<>>, <<>>>>
    /\ final_answer = <<>>
    /\ iteration_count = 0

\* C33: guard_node, the router, rag_node and tool_node leave the transcript
\* messages unchanged, finalize_node adds at most one entry to it, and at
\* Terminal it holds at most one entry.
C33_TranscriptWrittenByFinalize ==
    [][ /\ pc \notin {"initialize", "finalize"} => messages' = messages
        /\ pc = "finalize" =>
             \/ messages' = messages
             \/ /\ Len(messages') = Len(messages) + 1
                /\ SubSeq(messages', 1, Len(messages)) = messages
        /\ pc' = "end" => Len(messages') <= 1 ]_vars

\* a run handed a left-over state went through rag_node and tool_node and
\* ended with the one entry finalize_node wrote
C33_Witness ==
    /\ pc = "end"
    /\ {"rag", "tool", "finalize"} \subseteq visited
    /\ cached_index # NoHandle
    /\ messages = <<[role |-> "assistant", content |-> final_answer]>>

\* C34: after every execution of rag_node, grounding failure or not, the set
\* of citations is the set of the sources of the chunks in retrieved_chunks,
\* and no citation occurs twice.
C34_CitationsAreTheRetrievedSources ==
    [][ pc = "rag" =>
          /\ Tokens(citations') = SourcesOf(retrieved_chunks')
          /\ \A i, j \in DOMAIN citations' :
               citations'[i] = citations'[j] => i = j ]_vars

\* rag_node retrieved two chunks of two documents and cites both
C34_Witness ==
    /\ pc = "router"
    /\ "rag" \in visited
    /\ Len(retrieved_chunks) = 2
    /\ retrieved_chunks[1].source # retrieved_chunks[2].source
    /\ Len(citations) = 2
    /\ Tokens(citations) = {retrieved_chunks[1].source, retrieved_chunks[2].source}

\* C35: safe_calculate returns only values whose absolute value is at most
\* 1e9, and every failure of an expression is raised as ValueError.
C35_CalculatorBounded ==
    fn = "safe_calculate" =>
        IF ret.raised
        THEN ret.exc = "ValueError"
        ELSE /\ ret.value.k = "num"
             /\ ret.value.n <= 1000000000
             /\ ret.value.n >= -1000000000

\* C36: from Initialize on iteration_count never exceeds
\* MAX_NODE_ITERATIONS + 1, and the router can still dispatch a work node
\* when iteration_count equals MAX_NODE_ITERATIONS: it forces finalize only
\* when the count is strictly greater.
C36_CountWithinCeilingPlusOne ==
    /\ pc # "initialize" => iteration_count <= MAX_NODE_ITERATIONS + 1
    /\ (pc = "router" /\ iteration_count = MAX_NODE_ITERATIONS)
         => ENABLED (RouterEdge /\ pc' \in {"rag", "tool"})
    /\ (pc = "router" /\ iteration_count = MAX_NODE_ITERATIONS + 1)
         => ~ENABLED (RouterEdge /\ pc' \in {"rag", "tool"})

\* the router dispatched tool_node at iteration_count = MAX_NODE_ITERATIONS
\* and the run ended after MAX_NODE_ITERATIONS + 1 counted executions
C36_Witness ==
    /\ pc = "end"
    /\ iteration_count = MAX_NODE_ITERATIONS + 1
    /\ {"rag", "tool"} \subseteq visited
    /\ Len(tool_calls) >= 2

\* C37: an execution of rag_node that passes the grounding check appends
\* exactly one record named "rag", with the query as arguments and the
\* generated answer as result, to tool_calls; one that fails the check
\* appends none.
C37_RagRecordsItsAnswer ==
    [][ pc = "rag" =>
          IF AsksForFacts /\ retrieved_chunks' = <<>>
          THEN tool_calls' = tool_calls
          ELSE /\ Len(tool_calls') = Len(tool_calls) + 1
               /\ SubSeq(tool_calls', 1, Len(tool_calls)) = tool_calls
               /\ tool_calls'[Len(tool_calls')] =
                    [name |-> "rag", arguments |-> query, result |-> final_answer'] ]_vars

\* after a retrieval and nothing else tool_calls holds the record of
\* rag_node although no tool of the registry was invoked
C37_Witness ==
    /\ pc = "router"
    /\ "rag" \in visited
    /\ "tool" \notin visited
    /\ retrieved_chunks # <<>>
    /\ tool_calls = <<[name |-> "rag", arguments |-> query, result |-> final_answer]>>

\* the answer a work node produced in the step now taken: the grounding
\* error or the generated answer of rag_node, the text answer or the
\* synthesized answer of tool_node
NodeAnswer ==
    IF pc = "rag"
    THEN IF AsksForFacts /\ retrieved_chunks' = <<>>
         THEN <<"Query requires grounding but no documents retrieved">>
         ELSE tool_calls'[Len(tool_calls')].result
    ELSE IF Len(answer_calls') > 0
         THEN answer_calls'[Len(answer_calls')].result
         ELSE loop_answer

\* the texts of the transcript
Contents(transcript) == {transcript[i].content : i \in DOMAIN transcript}

\* C38: rag_node and tool_node overwrite final_answer with their own answer
\* whatever it held, the router leaves it alone, and finalize_node replaces
\* it by its masked form and writes nothing else into messages: the terminal
\* final_answer is mask_pii of the last work node's answer, and an earlier
\* node's answer is not in messages.
C38_LastWorkNodeAnswers ==
    [][ /\ (pc \in {"rag", "tool_after", "tool_loop"} /\ pc' = "router") =>
             final_answer' = NodeAnswer
        /\ pc = "router" => final_answer' = final_answer
        /\ pc = "finalize" =>
             /\ final_answer' = mask_pii(final_answer)
             /\ Contents(messages') \subseteq {final_answer'} ]_vars

\* a run routed retrieval -> tool: rag_node's answer is on record in
\* tool_calls, the synthesized answer of tool_node held PII, and the terminal
\* answer and the transcript hold its masked form and not rag_node's answer
C38_Witness ==
    /\ pc = "end"
    /\ Len(tool_calls) >= 2
    /\ tool_calls[1].name = "rag"
    /\ tool_calls[2].name # "rag"
    /\ Truthy(tool_calls[1].result)
    /\ Len(answer_calls) = 1
    /\ ContainsPII(answer_calls[1].result)
    /\ final_answer = mask_pii(answer_calls[1].result)
    /\ final_answer # mask_pii(tool_calls[1].result)
    /\ messages = <<[role |-> "assistant", content |-> final_answer]>>

\* C39: every call of load_index_and_chunks returns a pair whose index and
\* chunk table are both loaded, under any interleaving of concurrent callers.
C39_ReturnedPairLoaded ==
    \A c \in Callers :
        callers[c].returned # <<>> =>
            /\ callers[c].returned[1] # NoHandle
            /\ callers[c].returned[2] # NoHandle
====
